---- MODULE Spec2Model ----
(***************************************************************************)
(* SEA (Simple Embedded Audio) decoder: src/c/sea.h and its command-line   *)
(* driver src/c/demo.c, as a state machine.                                *)
(*                                                                         *)
(* Spec       main() of demo.c running both sea_decode calls over a file   *)
(* SpecUnpack sea_read_unpack_bits applied to packed value sequences       *)
(* SpecLms    sea_lms_update applied to LMS states and residuals           *)
(***************************************************************************)
EXTENDS Integers, Sequences, FiniteSets, TLC

VARIABLES
    \* ---- the environment of main()
    env,                \* [argc, input_opens, output_opens]
    encoded,            \* the bytes of the input file
    garbage,            \* the byte found in memory the program never initialised
    \* ---- main() and sea_decode()
    pc,                 \* position in main / sea_decode / sea_read_chunk
    call,               \* which sea_decode call of main is running (1 or 2)
    handle,             \* encoded_ptr, as a distance in pointer slots from &encoded
    cursor,             \* *encoded_ptr, as an offset into the input
    oob,                \* a byte at an offset >= encoded_len has been read
    ub,                 \* undefined behaviour has happened
    ret1, ret2,         \* what the two sea_decode calls returned
    exit_code,          \* what main returned
    complete,           \* "Decoding complete" has been printed
    sample_rate, channels, total_frames,   \* main's out-parameters
    frames_per_chunk, metadata_len,
    capacity,           \* samples the output buffer allocated by main holds
    output,             \* the samples written through *output, in order
    read_frames, frames_in_chunk, chunk_no,
    \* ---- sea_read_chunk()
    scale_factor_bits, residual_size, scale_factor_frames,
    lms, lms_seed, scale_factors, residuals, scale_factor_items,
    scale_factor_offset, frame_index, channel_index, chunk_base,
    SEA_DQT, SEA_DQT_MULTIPLIER,
    \* ---- sea_read_unpack_bits() on its own
    u_pc, u_bit_size, u_values, u_bytes, u_output, u_consumed,
    \* ---- sea_lms_update() on its own
    l_pc, l_before, l_after, l_residual, l_sample

envVars == <<env, encoded, garbage>>
mainVars == <<pc, call, handle, cursor, oob, ub, ret1, ret2, exit_code, complete,
              sample_rate, channels, total_frames, frames_per_chunk, metadata_len,
              capacity, output, read_frames, frames_in_chunk, chunk_no>>
chunkVars == <<scale_factor_bits, residual_size, scale_factor_frames, lms, lms_seed,
               scale_factors, residuals, scale_factor_items, scale_factor_offset,
               frame_index, channel_index, chunk_base, SEA_DQT, SEA_DQT_MULTIPLIER>>
unpackVars == <<u_pc, u_bit_size, u_values, u_bytes, u_output, u_consumed>>
lmsVars == <<l_pc, l_before, l_after, l_residual, l_sample>>
vars == <<envVars, mainVars, chunkVars, unpackVars, lmsVars>>

(***************************************************************************)
(* Bounds of the model.                                                    *)
(***************************************************************************)
MaxChannels == 2
MaxFrames == 3
MaxValues == 3

(***************************************************************************)
(* Arithmetic helpers.                                                     *)
(***************************************************************************)
Pow2(n) == 2 ^ n

\* SEA_MIN, sea.h:19
SEA_MIN(a, b) == IF a < b THEN a ELSE b

\* Widths.  Every quantity of the decoder is a 32-bit integer or narrower, and
\* so is every integer of the model checker, which stops with an error when a
\* sum or product leaves the 32-bit range: a run that completes has met no
\* overflow, and the operators below need no reduction modulo 2^32.

\* x >> n on a signed 32-bit integer: arithmetic shift, i.e. floor division
Sar(x, n) == x \div Pow2(n)

\* 'seac' read as a little-endian 32-bit word
SEAC_MAGIC_REV == 1667327347

\* div_ceil on uint32_t operands, b > 0
div_ceil(a, b) == (a + b - 1) \div b

\* the quotients div_ceil can return; with a divisor of 0 the division is
\* undefined: it traps (see Crash) or, on targets whose divide instruction
\* does not trap, yields 0
DivCeilOutcomes(a, b) == IF b = 0 THEN {0} ELSE {div_ceil(a, b)}

clamp_i16(value) ==
    IF value > 32767 THEN 32767
    ELSE IF value < -32768 THEN -32768
    ELSE value

(***************************************************************************)
(* Reading the input.  A read through the decoder's own cursor at an       *)
(* offset inside the input yields the input's byte; any other read (past   *)
(* the end, or through a moved encoded_ptr) yields what memory holds.      *)
(***************************************************************************)
InBounds(off) == handle = 0 /\ off >= 0 /\ off < Len(encoded)

ByteAt(off) == IF InBounds(off) THEN encoded[off + 1] ELSE garbage

\* some byte of cursor .. cursor+n-1 is not a byte of the input
ReadsOutside(n) == n > 0 /\ ~InBounds(cursor + n - 1)

\* some byte of cursor .. cursor+n-1 lies at an input offset >= encoded_len
ReadsPastEnd(n) == n > 0 /\ handle = 0 /\ cursor + n - 1 >= Len(encoded)

read_u8(off) == ByteAt(off)

read_u16_le(off) == ByteAt(off) + 256 * ByteAt(off + 1)

read_i16_le(off) ==
    LET v == ByteAt(off) + 256 * ByteAt(off + 1)
    IN  IF v >= 32768 THEN v - 65536 ELSE v

read_u32_le(off) ==
    ByteAt(off) + 256 * ByteAt(off + 1) + 65536 * ByteAt(off + 2)
    + 16777216 * ByteAt(off + 3)

\* (*buffer) += n: moves the decoder's cursor only while encoded_ptr still
\* points at it
Advance(n) == IF handle = 0 THEN cursor + n ELSE cursor

(***************************************************************************)
(* sea_read_unpack_bits, sea.h:55-70.                                      *)
(***************************************************************************)
\* a wrong extraction: the low bit_size bits of v, the shift forgotten
ExtractBitsUnshifted(v, bits_stored, bit_size) == v % Pow2(bit_size)

\* (v >> (bits_stored - bit_size)) & MASKS[bit_size], stored in a uint8_t
ExtractBits(v, bits_stored, bit_size) ==
    ((v \div Pow2(bits_stored - bit_size)) % Pow2(bit_size)) % 256

\* the while loop of one byte: emits while bits_stored >= bit_size
RECURSIVE DrainBits(_, _, _, _)
DrainBits(bit_size, v, bits_stored, out) ==
    IF bits_stored >= bit_size
    THEN DrainBits(bit_size, v, bits_stored - bit_size,
                   Append(out, ExtractBits(v, bits_stored, bit_size)))
    ELSE [bits_stored |-> bits_stored, output |-> out]

\* one iteration of the for loop over the source bytes
UnpackByte(bit_size, st, byte) ==
    LET v == st.carry * 256 + byte
        d == DrainBits(bit_size, v, st.bits_stored + 8, st.output)
    IN  [bits_stored |-> d.bits_stored,
         carry |-> v % Pow2(d.bits_stored),
         output |-> d.output,
         read |-> st.read + 1]

RECURSIVE UnpackLoop(_, _, _, _)
UnpackLoop(bit_size, bytes, i, st) ==
    IF i > Len(bytes) THEN st
    ELSE UnpackLoop(bit_size, bytes, i + 1, UnpackByte(bit_size, st, bytes[i]))

\* the loop's state after the bytes_to_read bytes given: output[] and the
\* number of read_u8 calls made
UnpackRun(bit_size, bytes) ==
    UnpackLoop(bit_size, bytes, 1,
               [bits_stored |-> 0, carry |-> 0, output |-> <<>>, read |-> 0])

sea_read_unpack_bits(bit_size, bytes) == UnpackRun(bit_size, bytes).output

(***************************************************************************)
(* The writer's side of the bit layout (data model of the format): values  *)
(* first to last, each MSB-first in bit_size bits, grouped into bytes      *)
(* MSB-first, the last byte padded with zero bits.                         *)
(***************************************************************************)
PackedBit(values, bit_size, pos) ==
    IF pos < Len(values) * bit_size
    THEN (values[(pos \div bit_size) + 1] \div Pow2(bit_size - 1 - (pos % bit_size))) % 2
    ELSE 0

PackedByte(values, bit_size, j) ==
    PackedBit(values, bit_size, 8 * j) * 128 + PackedBit(values, bit_size, 8 * j + 1) * 64
    + PackedBit(values, bit_size, 8 * j + 2) * 32 + PackedBit(values, bit_size, 8 * j + 3) * 16
    + PackedBit(values, bit_size, 8 * j + 4) * 8 + PackedBit(values, bit_size, 8 * j + 5) * 4
    + PackedBit(values, bit_size, 8 * j + 6) * 2 + PackedBit(values, bit_size, 8 * j + 7)

PackBits(values, bit_size) ==
    [j \in 1..((Len(values) * bit_size + 7) \div 8) |-> PackedByte(values, bit_size, j - 1)]

(***************************************************************************)
(* alloc_prepare_dqt, sea.h:80-126.                                        *)
(***************************************************************************)
\* scale_factors[i] = (int32_t)powf(i + 1, IDEAL_POW_FACTOR[rb - 1] / sfb), for
\* the parameters the model's inputs reach (binary32 results of the source)
ScaleFactorPow(sfb, rb) ==
    CASE sfb = 0 -> <<1>>
      [] sfb = 1 /\ rb = 1 -> <<1, 4096>>
      [] sfb = 1 /\ rb = 2 -> <<1, 3213>>
      [] sfb = 1 /\ rb = 3 -> <<1, 2352>>
      [] sfb = 2 /\ rb = 1 -> <<1, 64, 729, 4096>>
      [] sfb = 2 /\ rb = 2 -> <<1, 56, 601, 3213>>
      [] sfb = 2 /\ rb = 3 -> <<1, 48, 469, 2352>>

\* dqt[], in thousandths
DqtShape(rb) ==
    IF rb = 1 THEN <<2000>>
    ELSE IF rb = 2 THEN <<1115, 4000>>
    ELSE LET dqt_len == Pow2(rb - 1)
             end == Pow2(rb) - 1
             step == ((end * 1000) - 750) \div (1000 * (dqt_len - 1))
         IN  [i \in 1..dqt_len |->
                 IF i = 1 THEN 750
                 ELSE IF i = dqt_len THEN end * 1000
                 ELSE 500 + (i - 1) * step * 1000]

\* (int32_t)roundf(scale * dqt): to nearest, halves away from zero
RoundScaled(scale, thousandths) == (2 * scale * thousandths + 1000) \div 2000

ValidBits(b) == b >= 1 /\ b <= 8

\* SEA_DQT as the flat array the source fills: row s, then the (+v, -v) pairs.
\* With residual_bits outside 1..8 the builder indexes IDEAL_POW_FACTOR out of
\* range and shifts by an out-of-range count: nothing of the table is defined.
alloc_prepare_dqt(sfb, rb) ==
    IF ~ValidBits(rb) THEN <<>>
    ELSE LET scales == ScaleFactorPow(sfb, rb)
             shape == DqtShape(rb)
             dqt_len == Pow2(rb - 1)
         IN  [idx \in 1..(Len(scales) * dqt_len * 2) |->
                 LET s == (idx - 1) \div (dqt_len * 2)
                     q == ((idx - 1) % (dqt_len * 2)) \div 2
                     val == RoundScaled(scales[s + 1], shape[q + 1])
                 IN  IF (idx - 1) % 2 = 0 THEN val ELSE -val]

\* SEA_DQT_MULTIPLIER = dqt_len * 2
DqtMultiplier(rb) == IF ValidBits(rb) THEN Pow2(rb) ELSE 0

(***************************************************************************)
(* SEA_LMS, sea_lms_predict, sea_lms_update, sea.h:50-53, 138-165.         *)
(***************************************************************************)
LmsSum(l) ==
    l.weights[1] * l.history[1] + l.weights[2] * l.history[2]
    + l.weights[3] * l.history[3] + l.weights[4] * l.history[4]

sea_lms_predict(l) == Sar(LmsSum(l), 13)

\* a wrong update: a zero history sample counted as negative
LmsWeightStepZeroNegative(h, w, delta) == IF h <= 0 THEN w - delta ELSE w + delta

\* weights[i] -= delta when history[i] < 0, += delta otherwise
LmsWeightStep(h, w, delta) == IF h < 0 THEN w - delta ELSE w + delta

sea_lms_update(l, sample, residual) ==
    LET delta == Sar(residual, 4)
    IN  [history |-> <<l.history[2], l.history[3], l.history[4], sample>>,
         weights |-> [i \in 1..4 |-> LmsWeightStep(l.history[i], l.weights[i], delta)]]

(***************************************************************************)
(* The input files of the model: streams laid out as the decoder parses    *)
(* them (header, metadata, chunks), and the faults applied to them.        *)
(***************************************************************************)
U16Bytes(v) == <<v % 256, (v \div 256) % 256>>

I16Bytes(v) == U16Bytes(IF v < 0 THEN v + 65536 ELSE v)

U32Bytes(v) == <<v % 256, (v \div 256) % 256, (v \div 65536) % 256, (v \div 16777216) % 256>>

HeaderBytes(ch, fpc, total, mlen) ==
    <<115, 101, 97, 99, 1, ch>> \o U16Bytes(0) \o U16Bytes(fpc)
    \o U32Bytes(44100) \o U32Bytes(total) \o U32Bytes(mlen)

\* the LMS seed of channel c (from 0) in chunk k (from 1)
SeedLms(pat, c, k) ==
    IF pat = 0
    THEN [history |-> <<0, 0, 0, 0>>, weights |-> <<0, 0, 0, 0>>]
    ELSE IF c % 2 = 0
    THEN [history |-> <<-100, 200, -300, 400 + k>>, weights |-> <<-4096, 8192, 0, 16384>>]
    ELSE [history |-> <<0, 0, -1, 32000>>, weights |-> <<0, 0, 4096, 8192>>]

SeedBytes(l) ==
    I16Bytes(l.history[1]) \o I16Bytes(l.history[2]) \o I16Bytes(l.history[3])
    \o I16Bytes(l.history[4]) \o I16Bytes(l.weights[1]) \o I16Bytes(l.weights[2])
    \o I16Bytes(l.weights[3]) \o I16Bytes(l.weights[4])

RECURSIVE AllSeedBytes(_, _, _, _)
AllSeedBytes(pat, c, ch, k) ==
    IF c >= ch THEN <<>>
    ELSE SeedBytes(SeedLms(pat, c, k)) \o AllSeedBytes(pat, c + 1, ch, k)

ScaleFactorValues(pat, n, k, sfb) ==
    [i \in 1..n |-> IF pat = 0 THEN 0 ELSE (i - 1 + k) % Pow2(sfb)]

ResidualValues(pat, n, k, rb) ==
    [i \in 1..n |-> IF pat = 0 THEN 0 ELSE (3 * (i - 1) + k) % Pow2(rb)]

ChunkBytes(ch, F, sfb, rb, sff, pat, k) ==
    <<1, sfb * 16 + rb, sff, 90>>
    \o AllSeedBytes(pat, 0, ch, k)
    \o PackBits(ScaleFactorValues(pat, div_ceil(F, sff) * ch, k, sfb), sfb)
    \o PackBits(ResidualValues(pat, F * ch, k, rb), rb)

ChunkFrames(k, fpc, total) == SEA_MIN(fpc, total - (k - 1) * fpc)

RECURSIVE ChunksFrom(_, _, _, _, _, _, _, _)
ChunksFrom(k, ch, fpc, total, sfb, rb, sff, pat) ==
    IF (k - 1) * fpc >= total THEN <<>>
    ELSE ChunkBytes(ch, ChunkFrames(k, fpc, total), sfb, rb, sff, pat, k)
         \o ChunksFrom(k + 1, ch, fpc, total, sfb, rb, sff, pat)

Stream(ch, fpc, total, sfb, rb, sff, pat, mlen) ==
    HeaderBytes(ch, fpc, total, mlen) \o [i \in 1..mlen |-> 1]
    \o ChunksFrom(1, ch, fpc, total, sfb, rb, sff, pat)

\* offset of chunk k in the stream
ChunkStart(k, ch, fpc, total, sfb, rb, sff, pat, mlen) ==
    Len(HeaderBytes(ch, fpc, total, mlen)) + mlen
    + Len(ChunksFrom(1, ch, fpc, SEA_MIN(total, (k - 1) * fpc), sfb, rb, sff, pat))

SetByte(s, off, v) == IF off < Len(s) THEN [s EXCEPT ![off + 1] = v] ELSE s

GarbageBytes == {0, 1, 17}

\* packed parameter bytes with a nibble outside 1..8: 0x01, 0x10, 0x19
InvalidParamBytes == {1, 16, 25}

TruncationPoints == {0, 21, 22, 26}

Faults ==
    {[kind |-> k, arg |-> 0] :
        k \in {"none", "usage", "noinput", "nooutput", "badmagic", "badversion",
               "fpc0", "sff0", "meta", "short"}}
    \cup {[kind |-> k, arg |-> n] : k \in {"badtype", "badreserved"}, n \in 1..2}
    \cup {[kind |-> "params", arg |-> b] : b \in InvalidParamBytes}
    \cup {[kind |-> "trunc", arg |-> n] : n \in TruncationPoints}

FaultyStream(f, ch, fpc, total, sfb, rb, sff, pat) ==
    LET mlen == IF f.kind = "meta" THEN 1 ELSE 0
        s == Stream(ch, fpc, total, sfb, rb, sff, pat, mlen)
        at(k) == ChunkStart(k, ch, fpc, total, sfb, rb, sff, pat, mlen)
    IN  CASE f.kind = "badmagic" -> SetByte(s, 0, 0)
          [] f.kind = "badversion" -> SetByte(s, 4, 2)
          [] f.kind = "fpc0" -> SetByte(SetByte(s, 8, 0), 9, 0)
          [] f.kind = "sff0" -> SetByte(s, at(1) + 2, 0)
          [] f.kind = "badtype" -> SetByte(s, at(f.arg), 2)
          [] f.kind = "badreserved" -> SetByte(s, at(f.arg) + 3, 0)
          [] f.kind = "params" -> SetByte(s, at(1) + 1, f.arg)
          [] f.kind = "short" -> SubSeq(s, 1, Len(s) - 1)
          [] f.kind = "trunc" -> SubSeq(s, 1, SEA_MIN(f.arg, Len(s)))
          [] OTHER -> s

EnvOf(f) ==
    [argc |-> IF f.kind = "usage" THEN 2 ELSE 3,
     input_opens |-> f.kind # "noinput",
     output_opens |-> f.kind # "nooutput"]

(***************************************************************************)
(* Initial states.                                                         *)
(***************************************************************************)
ChunkIdle ==
    /\ scale_factor_bits = 0 /\ residual_size = 0 /\ scale_factor_frames = 0
    /\ lms = <<>> /\ lms_seed = <<>> /\ scale_factors = <<>> /\ residuals = <<>>
    /\ scale_factor_items = 0 /\ scale_factor_offset = 0 /\ frame_index = 0
    /\ channel_index = 0 /\ chunk_base = 0 /\ SEA_DQT = <<>> /\ SEA_DQT_MULTIPLIER = 0

ZeroLms == [history |-> <<0, 0, 0, 0>>, weights |-> <<0, 0, 0, 0>>]

UnpackIdle ==
    /\ u_pc = "idle" /\ u_bit_size = 1 /\ u_values = <<>> /\ u_bytes = <<>>
    /\ u_output = <<>> /\ u_consumed = 0

LmsIdle ==
    /\ l_pc = "idle" /\ l_before = ZeroLms /\ l_after = ZeroLms
    /\ l_residual = 0 /\ l_sample = 0

\* main() before its first statement; its locals sample_rate, channels and
\* output_frames are uninitialised
MainInit ==
    /\ pc = "main" /\ call = 1 /\ handle = 0 /\ cursor = 0
    /\ oob = FALSE /\ ub = FALSE /\ ret1 = 0 /\ ret2 = 0 /\ exit_code = 0
    /\ complete = FALSE
    /\ sample_rate = garbage /\ channels = garbage /\ total_frames = garbage
    /\ frames_per_chunk = 0 /\ metadata_len = 0 /\ capacity = 0 /\ output = <<>>
    /\ read_frames = 0 /\ frames_in_chunk = 0 /\ chunk_no = 0

FramesPerChunkSet == {1, 2, 3}
ScaleFactorBitsSet == {1, 2}
ResidualBitsSet == {1, 2, 3}
ScaleFactorFramesSet == {1, 2}
PatternSet == {0, 1}

Init ==
    /\ \E ch \in 1..MaxChannels, fpc \in FramesPerChunkSet, total \in 0..MaxFrames,
          sfb \in ScaleFactorBitsSet, rb \in ResidualBitsSet,
          sff \in ScaleFactorFramesSet, pat \in PatternSet, f \in Faults :
          /\ encoded = FaultyStream(f, ch, fpc, total, sfb, rb, sff, pat)
          /\ env = EnvOf(f)
    /\ garbage \in GarbageBytes
    /\ MainInit
    /\ ChunkIdle
    /\ UnpackIdle
    /\ LmsIdle

(***************************************************************************)
(* main, demo.c:39-80.                                                     *)
(***************************************************************************)
Exit(code) ==
    /\ pc' = "exit"
    /\ exit_code' = code

\* demo.c:41-58: the usage check, opening and reading the input file
MainOpen ==
    /\ pc = "main"
    /\ IF env.argc # 3 \/ ~env.input_opens
       THEN Exit(1)
       ELSE pc' = "decode" /\ exit_code' = exit_code
    /\ UNCHANGED <<call, handle, cursor, oob, ub, ret1, ret2, complete, sample_rate,
                   channels, total_frames, frames_per_chunk, metadata_len, capacity,
                   output, read_frames, frames_in_chunk, chunk_no>>
    /\ UNCHANGED <<envVars, chunkVars, unpackVars, lmsVars>>

\* sea_decode returns v to main, which does not look at it
Return(v) ==
    /\ pc' = "returned"
    /\ ret1' = IF call = 1 THEN v ELSE ret1
    /\ ret2' = IF call = 2 THEN v ELSE ret2

\* sea.h:236-252: magic and version, then the remaining header fields, then
\* encoded_ptr += metadata_len, which moves encoded_ptr itself
DecodeHeader ==
    /\ pc = "decode"
    /\ IF read_u32_le(cursor) # SEAC_MAGIC_REV \/ read_u8(cursor + 4) # 1
       THEN /\ Return(1)
            /\ cursor' = Advance(5)
            /\ oob' = (oob \/ ReadsPastEnd(5))
            /\ ub' = (ub \/ ReadsOutside(5))
            /\ UNCHANGED <<handle, sample_rate, channels, total_frames,
                           frames_per_chunk, metadata_len>>
       ELSE /\ pc' = "header_done"
            /\ UNCHANGED <<ret1, ret2>>
            /\ channels' = read_u8(cursor + 5)
            /\ frames_per_chunk' = read_u16_le(cursor + 8)
            /\ sample_rate' = read_u32_le(cursor + 10)
            /\ total_frames' = read_u32_le(cursor + 14)
            /\ metadata_len' = read_u32_le(cursor + 18)
            /\ cursor' = Advance(22)
            /\ handle' = handle + metadata_len'
            /\ oob' = (oob \/ ReadsPastEnd(22))
            /\ ub' = (ub \/ ReadsOutside(22))
    /\ UNCHANGED <<call, exit_code, complete, capacity, output, read_frames,
                   frames_in_chunk, chunk_no>>
    /\ UNCHANGED <<envVars, chunkVars, unpackVars, lmsVars>>

\* sea.h:254-259: the probe call (output == NULL) returns; the full call
\* starts the chunk loop
DecodeOutputCheck ==
    /\ pc = "header_done"
    /\ IF call = 1
       THEN Return(0) /\ read_frames' = read_frames
       ELSE pc' = "loop" /\ read_frames' = 0 /\ UNCHANGED <<ret1, ret2>>
    /\ UNCHANGED <<call, handle, cursor, oob, ub, exit_code, complete, sample_rate,
                   channels, total_frames, frames_per_chunk, metadata_len, capacity,
                   output, frames_in_chunk, chunk_no>>
    /\ UNCHANGED <<envVars, chunkVars, unpackVars, lmsVars>>

\* demo.c:63-64: the output buffer is allocated from what the probe call left
\* in channels and output_frames (nothing, when it failed: the locals are then
\* read uninitialised), and sea_decode is called again
MainAllocate ==
    /\ pc = "returned" /\ call = 1
    /\ capacity' = total_frames * channels
    /\ ub' = (ub \/ ret1 # 0)
    /\ call' = 2
    /\ cursor' = 0
    /\ handle' = 0
    /\ pc' = "decode"
    /\ UNCHANGED <<oob, ret1, ret2, exit_code, complete, sample_rate, channels,
                   total_frames, frames_per_chunk, metadata_len, output, read_frames,
                   frames_in_chunk, chunk_no>>
    /\ UNCHANGED <<envVars, chunkVars, unpackVars, lmsVars>>

\* demo.c:67-79: the output file is opened and written, main returns 0
MainWrite ==
    /\ pc = "returned" /\ call = 2
    /\ IF ~env.output_opens
       THEN Exit(1) /\ complete' = complete
       ELSE Exit(0) /\ complete' = TRUE
    /\ UNCHANGED <<call, handle, cursor, oob, ub, ret1, ret2, sample_rate, channels,
                   total_frames, frames_per_chunk, metadata_len, capacity, output,
                   read_frames, frames_in_chunk, chunk_no>>
    /\ UNCHANGED <<envVars, chunkVars, unpackVars, lmsVars>>

\* div_ceil(frames_in_this_chunk, 0) at sea.h:196 is about to divide by zero
DivisionTraps == pc = "unpack" /\ scale_factor_frames = 0

\* once behaviour is undefined the process may die at any point, and it dies
\* at a division by zero on targets where that traps
Crash ==
    /\ ub \/ DivisionTraps
    /\ pc \notin {"exit", "crashed"}
    /\ pc' = "crashed"
    /\ exit_code' = 139
    /\ UNCHANGED <<call, handle, cursor, oob, ub, ret1, ret2, complete, sample_rate,
                   channels, total_frames, frames_per_chunk, metadata_len, capacity,
                   output, read_frames, frames_in_chunk, chunk_no>>
    /\ UNCHANGED <<envVars, chunkVars, unpackVars, lmsVars>>

(***************************************************************************)
(* The chunk loop of sea_decode (sea.h:258-270) and sea_read_chunk         *)
(* (sea.h:167-232).                                                        *)
(***************************************************************************)
MainUnchanged ==
    UNCHANGED <<call, exit_code, complete, sample_rate, channels, total_frames,
                frames_per_chunk, metadata_len, capacity>>

\* sea.h:260-262: the loop test and frames_in_chunk
ChunkLoop ==
    /\ pc = "loop"
    /\ IF read_frames < total_frames
       THEN /\ frames_in_chunk' = SEA_MIN(frames_per_chunk, total_frames - read_frames)
            /\ chunk_no' = chunk_no + 1
            /\ pc' = "chunk"
            /\ UNCHANGED <<ret1, ret2>>
       ELSE /\ Return(0)
            /\ UNCHANGED <<frames_in_chunk, chunk_no>>
    /\ MainUnchanged
    /\ UNCHANGED <<handle, cursor, oob, ub, output, read_frames>>
    /\ UNCHANGED <<envVars, chunkVars, unpackVars, lmsVars>>

\* sea.h:169-182: the 4-byte subheader; a wrong type or reserved byte makes
\* sea_read_chunk return 1 and sea_decode return 2
ChunkSubheader ==
    /\ pc = "chunk"
    /\ IF read_u8(cursor) # 1
       THEN /\ Return(2)
            /\ cursor' = Advance(1)
            /\ oob' = (oob \/ ReadsPastEnd(1))
            /\ ub' = (ub \/ ReadsOutside(1))
            /\ UNCHANGED <<scale_factor_bits, residual_size, scale_factor_frames, chunk_base>>
       ELSE /\ scale_factor_bits' = read_u8(cursor + 1) \div 16
            /\ residual_size' = read_u8(cursor + 1) % 16
            /\ scale_factor_frames' = read_u8(cursor + 2)
            /\ cursor' = Advance(4)
            /\ oob' = (oob \/ ReadsPastEnd(4))
            /\ ub' = (ub \/ ReadsOutside(4))
            /\ chunk_base' = Len(output)
            /\ IF read_u8(cursor + 3) # 90
               THEN Return(2)
               ELSE pc' = "dqt" /\ UNCHANGED <<ret1, ret2>>
    /\ MainUnchanged
    /\ UNCHANGED <<handle, output, read_frames, frames_in_chunk, chunk_no>>
    /\ UNCHANGED <<lms, lms_seed, scale_factors, residuals, scale_factor_items,
                   scale_factor_offset, frame_index, channel_index, SEA_DQT,
                   SEA_DQT_MULTIPLIER>>
    /\ UNCHANGED <<envVars, unpackVars, lmsVars>>

\* sea.h:184: alloc_prepare_dqt(scale_factor_bits, residual_size)
ChunkPrepareDqt ==
    /\ pc = "dqt"
    /\ SEA_DQT' = alloc_prepare_dqt(scale_factor_bits, residual_size)
    /\ SEA_DQT_MULTIPLIER' = DqtMultiplier(residual_size)
    /\ ub' = (ub \/ ~ValidBits(residual_size))
    /\ pc' = "seed"
    /\ MainUnchanged
    /\ UNCHANGED <<handle, cursor, oob, ret1, ret2, output, read_frames,
                   frames_in_chunk, chunk_no>>
    /\ UNCHANGED <<scale_factor_bits, residual_size, scale_factor_frames, lms, lms_seed,
                   scale_factors, residuals, scale_factor_items, scale_factor_offset,
                   frame_index, channel_index, chunk_base>>
    /\ UNCHANGED <<envVars, unpackVars, lmsVars>>

\* the LMS block of channel c (from 0) at the cursor
ReadLms(c) ==
    [history |-> [j \in 1..4 |-> read_i16_le(cursor + 16 * c + 2 * (j - 1))],
     weights |-> [j \in 1..4 |-> read_i16_le(cursor + 16 * c + 8 + 2 * (j - 1))]]

\* sea.h:186-194: the per-channel LMS state, history then weights
ChunkSeedLms ==
    /\ pc = "seed"
    /\ lms' = [c \in 1..channels |-> ReadLms(c - 1)]
    /\ lms_seed' = lms'
    /\ cursor' = Advance(16 * channels)
    /\ oob' = (oob \/ ReadsPastEnd(16 * channels))
    /\ ub' = (ub \/ ReadsOutside(16 * channels))
    /\ pc' = "unpack"
    /\ MainUnchanged
    /\ UNCHANGED <<handle, ret1, ret2, output, read_frames, frames_in_chunk, chunk_no>>
    /\ UNCHANGED <<scale_factor_bits, residual_size, scale_factor_frames, scale_factors,
                   residuals, scale_factor_items, scale_factor_offset, frame_index,
                   channel_index, chunk_base, SEA_DQT, SEA_DQT_MULTIPLIER>>
    /\ UNCHANGED <<envVars, unpackVars, lmsVars>>

BytesFrom(off, n) == [i \in 1..n |-> ByteAt(off + i - 1)]

\* sea_read_unpack_bits as sea_read_chunk calls it.  With bit_size > 8 the
\* source indexes MASKS[9] out of range: the count of values is the loop's, the
\* values are whatever memory holds
UnpackRegion(bit_size, bytes) ==
    IF bit_size <= 8
    THEN sea_read_unpack_bits(bit_size, bytes)
    ELSE [i \in 1..((8 * Len(bytes)) \div bit_size) |-> garbage]

\* sea.h:196-203: both packed regions are read and unpacked
ChunkUnpack ==
    /\ pc = "unpack"
    /\ \E groups \in DivCeilOutcomes(frames_in_chunk, scale_factor_frames) :
        LET items == groups * channels
            scale_factor_bytes == div_ceil(items * scale_factor_bits, 8)
            residual_bytes == div_ceil(frames_in_chunk * residual_size * channels, 8)
        IN  /\ scale_factor_items' = items
            /\ scale_factors' =
                   UnpackRegion(scale_factor_bits, BytesFrom(cursor, scale_factor_bytes))
            /\ residuals' =
                   UnpackRegion(residual_size,
                                BytesFrom(cursor + scale_factor_bytes, residual_bytes))
            /\ cursor' = Advance(scale_factor_bytes + residual_bytes)
            /\ oob' = (oob \/ ReadsPastEnd(scale_factor_bytes + residual_bytes))
            /\ ub' = (ub \/ ReadsOutside(scale_factor_bytes + residual_bytes)
                         \/ scale_factor_frames = 0
                         \/ (scale_factor_bits > 8 /\ scale_factor_bytes > 0)
                         \/ (residual_size > 8 /\ residual_bytes > 0))
            /\ pc' = IF items > 0 /\ scale_factor_frames > 0 /\ channels > 0
                     THEN "emit" ELSE "chunk_end"
    /\ scale_factor_offset' = 0
    /\ frame_index' = 0
    /\ channel_index' = 0
    /\ MainUnchanged
    /\ UNCHANGED <<handle, ret1, ret2, output, read_frames, frames_in_chunk, chunk_no>>
    /\ UNCHANGED <<scale_factor_bits, residual_size, scale_factor_frames, lms, lms_seed,
                   chunk_base, SEA_DQT, SEA_DQT_MULTIPLIER>>
    /\ UNCHANGED <<envVars, unpackVars, lmsVars>>

\* an element of a heap array, or what memory holds past what was stored
ElementOr(arr, idx) == IF idx >= 0 /\ idx < Len(arr) THEN arr[idx + 1] ELSE garbage

\* a wrong residual index: the group offset not scaled by scale_factor_frames
ResidualIndexUnscaled(so, fi, ci) == so + fi * channels + ci

\* &residuals[scale_factor_offset * scale_factor_frames][frame_index * channels]
\* [channel_index], sea.h:206-214
ResidualIndex(so, fi, ci) == so * scale_factor_frames + fi * channels + ci

\* scale_factors[scale_factor_offset + channel_index], sea.h:212
ScaleFactorIndex(so, ci) == so + ci

\* SEA_DQT[scale_factor * SEA_DQT_MULTIPLIER + quantized], sea.h:215
DqtIndex(scale_factor, quantized) == scale_factor * SEA_DQT_MULTIPLIER + quantized

\* sea.h:205-224: one pass of the innermost loop body, then the loop counters
EmitSample ==
    /\ pc = "emit"
    /\ LET sfi == ScaleFactorIndex(scale_factor_offset, channel_index)
           ri == ResidualIndex(scale_factor_offset, frame_index, channel_index)
           scale_factor == ElementOr(scale_factors, sfi)
           predicted == sea_lms_predict(lms[channel_index + 1])
           quantized == ElementOr(residuals, ri)
           dqi == DqtIndex(scale_factor, quantized)
           dequantized == ElementOr(SEA_DQT, dqi)
           reconstructed == clamp_i16(predicted + dequantized)
           last_channel == channel_index + 1 >= channels
           last_frame == frame_index + 1 >= scale_factor_frames
       IN  /\ output' = Append(output, reconstructed)
           /\ lms' = [lms EXCEPT ![channel_index + 1] =
                          sea_lms_update(@, reconstructed, dequantized)]
           /\ ub' = (ub \/ sfi >= Len(scale_factors) \/ ri >= Len(residuals)
                        \/ dqi >= Len(SEA_DQT) \/ Len(output) >= capacity)
           /\ channel_index' = IF last_channel THEN 0 ELSE channel_index + 1
           /\ frame_index' = IF ~last_channel THEN frame_index
                             ELSE IF last_frame THEN 0 ELSE frame_index + 1
           /\ scale_factor_offset' = IF last_channel /\ last_frame
                                     THEN scale_factor_offset + channels
                                     ELSE scale_factor_offset
           /\ pc' = IF last_channel /\ last_frame
                       /\ scale_factor_offset + channels >= scale_factor_items
                    THEN "chunk_end" ELSE "emit"
    /\ MainUnchanged
    /\ UNCHANGED <<handle, cursor, oob, ret1, ret2, read_frames, frames_in_chunk, chunk_no>>
    /\ UNCHANGED <<scale_factor_bits, residual_size, scale_factor_frames, lms_seed,
                   scale_factors, residuals, scale_factor_items, chunk_base, SEA_DQT,
                   SEA_DQT_MULTIPLIER>>
    /\ UNCHANGED <<envVars, unpackVars, lmsVars>>

\* sea.h:226-231 and 263-267: sea_read_chunk returns 0, read_frames advances
ChunkEnd ==
    /\ pc = "chunk_end"
    /\ read_frames' = read_frames + frames_in_chunk
    /\ pc' = "loop"
    /\ MainUnchanged
    /\ UNCHANGED <<handle, cursor, oob, ub, ret1, ret2, output, frames_in_chunk, chunk_no>>
    /\ UNCHANGED <<envVars, chunkVars, unpackVars, lmsVars>>

Next ==
    \/ MainOpen
    \/ DecodeHeader
    \/ DecodeOutputCheck
    \/ MainAllocate
    \/ ChunkLoop
    \/ ChunkSubheader
    \/ ChunkPrepareDqt
    \/ ChunkSeedLms
    \/ ChunkUnpack
    \/ EmitSample
    \/ ChunkEnd
    \/ MainWrite
    \/ Crash

Spec == Init /\ [][Next]_vars

(***************************************************************************)
(* sea_read_unpack_bits on its own: value sequences are packed by the      *)
(* writer's discipline and handed to the unpacker.                         *)
(***************************************************************************)
DecoderIdle ==
    /\ env = [argc |-> 3, input_opens |-> TRUE, output_opens |-> TRUE]
    /\ encoded = <<>> /\ garbage = 0
    /\ pc = "idle" /\ call = 1 /\ handle = 0 /\ cursor = 0
    /\ oob = FALSE /\ ub = FALSE /\ ret1 = 0 /\ ret2 = 0 /\ exit_code = 0
    /\ complete = FALSE /\ sample_rate = 0 /\ channels = 0 /\ total_frames = 0
    /\ frames_per_chunk = 0 /\ metadata_len = 0 /\ capacity = 0 /\ output = <<>>
    /\ read_frames = 0 /\ frames_in_chunk = 0 /\ chunk_no = 0
    /\ ChunkIdle

\* values of bit_size bits: the smallest, the largest, and the two alternating
\* bit patterns
SampleValues(bit_size) ==
    {v \in 0..(Pow2(bit_size) - 1) :
        \/ v < 3
        \/ v >= Pow2(bit_size) - 2
        \/ v = (Pow2(bit_size) - 1) \div 3
        \/ v = Pow2(bit_size) - 1 - ((Pow2(bit_size) - 1) \div 3)}

InitUnpack ==
    /\ DecoderIdle
    /\ LmsIdle
    /\ u_pc = "packed"
    /\ u_bit_size \in 1..8
    /\ \E n \in 0..MaxValues : u_values \in [1..n -> SampleValues(u_bit_size)]
    /\ u_bytes = PackBits(u_values, u_bit_size)
    /\ u_output = <<>>
    /\ u_consumed = 0

UnpackApply ==
    /\ u_pc = "packed"
    /\ u_output' = sea_read_unpack_bits(u_bit_size, u_bytes)
    /\ u_consumed' = UnpackRun(u_bit_size, u_bytes).read
    /\ u_pc' = "unpacked"
    /\ UNCHANGED <<u_bit_size, u_values, u_bytes>>
    /\ UNCHANGED <<envVars, mainVars, chunkVars, lmsVars>>

NextUnpack == UnpackApply

SpecUnpack == InitUnpack /\ [][NextUnpack]_vars

(***************************************************************************)
(* sea_lms_update on its own.                                              *)
(***************************************************************************)
HistorySet == {-3, 0, 2}

WeightVectors == {<<0, 0, 0, 0>>, <<-4096, 8192, 0, 16384>>, <<5, -5, 32767, -32768>>}

\* residuals as the DQT holds them (1, -1, 2, 4096, ...) and the values around
\* the shift distance of 4 bits
ResidualSet == {-8192, -4096, -17, -16, -15, -2, -1, 0, 1, 2, 15, 16, 17, 4096, 8192}

SampleSet == {-32768, 0, 32767}

InitLms ==
    /\ DecoderIdle
    /\ UnpackIdle
    /\ l_pc = "ready"
    /\ \E h \in [1..4 -> HistorySet], w \in WeightVectors :
          l_before = [history |-> h, weights |-> w]
    /\ l_after = ZeroLms
    /\ l_residual \in ResidualSet
    /\ l_sample \in SampleSet

LmsApply ==
    /\ l_pc = "ready"
    /\ l_after' = sea_lms_update(l_before, l_sample, l_residual)
    /\ l_pc' = "updated"
    /\ UNCHANGED <<l_before, l_residual, l_sample>>
    /\ UNCHANGED <<envVars, mainVars, chunkVars, unpackVars>>

NextLms == LmsApply

SpecLms == InitLms /\ [][NextLms]_vars

(***************************************************************************)
(* Properties of main / sea_decode / sea_read_chunk (specification Spec).  *)
(***************************************************************************)
DecodeReturned == pc = "returned" /\ call = 2

\* C1: a decode that returns 0 has written exactly total_frames * channels
\* samples, and no write ever lands at an output index >= total_frames * channels.
C1_SampleCount ==
    /\ (DecodeReturned /\ ret2 = 0) => Len(output) = total_frames * channels
    /\ (call = 2 /\ pc \in {"emit", "chunk_end", "loop", "returned"})
           => Len(output) <= total_frames * channels

\* C2: no byte at an offset >= encoded_len is ever read, and a decode whose
\* parse ran past the end of the input returns a non-zero error.
C2_TruncatedIsFatal ==
    /\ ~oob
    /\ (DecodeReturned /\ handle = 0 /\ cursor > Len(encoded)) => ret2 # 0

\* C3: wherever the DQT builder, the bit unpacker or the emit loop of a chunk
\* runs, 1 <= scale_factor_bits <= 8 and 1 <= residual_bits <= 8.
C3_ParametersValidated ==
    pc \in {"dqt", "seed", "unpack", "emit", "chunk_end"}
        => ValidBits(scale_factor_bits) /\ ValidBits(residual_size)

\* C4: when the first chunk subheader is read, the read cursor is at offset
\* 22 + metadata_len of the input.
C4_MetadataSkipped ==
    (pc = "chunk" /\ chunk_no = 1) => (handle = 0 /\ cursor = 22 + metadata_len)

\* C5: when sea_decode returns a non-zero error, nothing has been written to
\* the caller's PCM buffer.
C5_NoPartialOutput ==
    (DecodeReturned /\ ret2 # 0) => output = <<>>

\* C9: when either sea_decode call returned non-zero, main exits with a
\* non-zero code and does not report "Decoding complete".
C9_ExitCodeReportsFailure ==
    (pc = "exit" /\ (ret1 # 0 \/ ret2 # 0)) => (exit_code # 0 /\ ~complete)

\* C10: every iteration of the chunk loop that does not fail strictly
\* increases read_frames.
C10_ChunkLoopProgress ==
    [][(pc = "chunk_end" /\ pc' = "loop") => read_frames' > read_frames]_vars

(***************************************************************************)
(* C8: the emitted samples, position by position.                          *)
(***************************************************************************)
\* DQT[scale_factors[(f div scale_factor_frames) * C + c]][residuals[f * C + c]]
RefDequantized(f, c) ==
    LET row == scale_factors[((f \div scale_factor_frames) * channels + c) + 1]
        col == residuals[(f * channels + c) + 1]
    IN  SEA_DQT[(row * Pow2(residual_size) + col) + 1]

\* channel c's LMS state before frame f: the seed of the subheader, updated by
\* channel c's frames 0 .. f-1 of this chunk
RECURSIVE RefLms(_, _)
RefLms(f, c) ==
    IF f = 0 THEN lms_seed[c + 1]
    ELSE LET before == RefLms(f - 1, c)
             dequantized == RefDequantized(f - 1, c)
             sample == clamp_i16(sea_lms_predict(before) + dequantized)
         IN  sea_lms_update(before, sample, dequantized)

RefSample(f, c) == clamp_i16(sea_lms_predict(RefLms(f, c)) + RefDequantized(f, c))

ValidChunk ==
    /\ pc \in {"emit", "chunk_end"}
    /\ ValidBits(scale_factor_bits) /\ ValidBits(residual_size)
    /\ scale_factor_frames >= 1

\* C8: in a chunk of F frames and C channels with valid parameters, every
\* sample written for frame f < F and channel c < C is at output position
\* f * C + c of the chunk and equals clamp_i16(lms_predict(lms[c]) +
\* DQT[scale_factors[(f div scale_factor_frames) * C + c]][residuals[f * C + c]]).
C8_EmissionOrder ==
    ValidChunk =>
        \A f \in 0..(frames_in_chunk - 1), c \in 0..(channels - 1) :
            chunk_base + f * channels + c < Len(output)
                => output[chunk_base + f * channels + c + 1] = RefSample(f, c)

\* a chunk of three frames and two channels in two scale-factor groups, all of
\* its frames emitted, with a clamped sample among them
C8_Witness ==
    /\ ValidChunk /\ pc = "chunk_end"
    /\ channels = 2 /\ frames_in_chunk = 3 /\ scale_factor_frames = 2
    /\ residual_size = 3 /\ scale_factor_bits = 2
    /\ Len(output) - chunk_base >= 6
    /\ \E i \in 1..Len(output) : output[i] = 32767
    /\ \E i \in 1..Len(residuals) : residuals[i] > 1

(***************************************************************************)
(* C6: the bit unpacker (specification SpecUnpack).                        *)
(***************************************************************************)
\* C6: unpacking the MSB-first packing of n values of bit_size bits reads
\* exactly ceil(n * bit_size / 8) bytes and yields floor(bytes * 8 / bit_size)
\* values, the first n of which are the packed values in order.
C6_UnpackRoundTrip ==
    u_pc = "unpacked" =>
        /\ u_consumed = (Len(u_values) * u_bit_size + 7) \div 8
        /\ Len(u_output) = (u_consumed * 8) \div u_bit_size
        /\ Len(u_output) >= Len(u_values)
        /\ \A i \in 1..Len(u_values) : u_output[i] = u_values[i]

\* three 3-bit values: the second and third straddle the byte boundary, and the
\* seven padding bits of the second byte yield two more values
C6_Witness ==
    /\ u_pc = "unpacked" /\ u_bit_size = 3
    /\ u_values = <<6, 5, 2>>
    /\ u_bytes = <<213, 0>>
    /\ u_output = <<6, 5, 2, 0, 0>>

(***************************************************************************)
(* C7: the LMS update (specification SpecLms).                             *)
(***************************************************************************)
\* the direction sign(history[i]) * sign(residual), history[i] >= 0 counted
\* as positive
Direction(h, residual) ==
    IF (h >= 0 /\ residual > 0) \/ (h < 0 /\ residual < 0) THEN 1 ELSE -1

MovesInDirection(i) ==
    IF Direction(l_before.history[i], l_residual) > 0
    THEN l_after.weights[i] > l_before.weights[i]
    ELSE l_after.weights[i] < l_before.weights[i]

\* C7 as stated: after an update with any non-zero residual every weight has
\* moved in the direction sign(history[i]) * sign(residual).
C7_EveryNonZeroResidualMoves ==
    (l_pc = "updated" /\ l_residual # 0) => \A i \in 1..4 : MovesInDirection(i)

\* C7: after an update with a residual >= 16 or < 0 every weight has moved in
\* the direction sign(history[i]) * sign(residual); with a residual in 0..15 no
\* weight has changed.
C7_WeightsMoveByShiftedResidual ==
    l_pc = "updated" =>
        /\ (l_residual >= 16 \/ l_residual < 0) => \A i \in 1..4 : MovesInDirection(i)
        /\ (l_residual >= 0 /\ l_residual < 16) => l_after.weights = l_before.weights

\* an update with a negative residual on a state holding a zero, a negative and
\* a positive history sample
C7_Witness ==
    /\ l_pc = "updated" /\ l_residual = -1
    /\ l_before.history = <<0, -3, 2, 0>>
    /\ l_after.weights[1] = l_before.weights[1] - 1
    /\ l_after.weights[2] = l_before.weights[2] + 1

====
